---- MODULE Spec2Model ----
(***************************************************************************)
(* A model of hermes2d/src/solver/picard_solver.cpp: the Picard            *)
(* fixed-point driver PicardSolver<Scalar>::solve with its optional        *)
(* Anderson acceleration, for Scalar = double in exact (rational)          *)
(* arithmetic.  The assembler (dp->assemble) and the sparse linear solver  *)
(* (matrix_solver) are external collaborators: the linear solver's answer  *)
(* is an input of each iteration.                                          *)
(***************************************************************************)
EXTENDS Integers, Sequences, FiniteSets, TLC

\* ------------------------------------------------------------------ bounds
MaxVal == 2       \* components of the initial guess and of solver outputs: 0..MaxVal
MaxDepth == 3     \* set_num_last_vector_used draws from 0..MaxDepth
MaxIters == 3     \* set_picard_max_iter draws from 0..MaxIters
MaxCells == 8     \* scalars in a history handed to the Anderson mixer alone

\* ------------------------------------------------------ program constants
DefaultMaxIter == 50
DefaultDepth == 3

\* ------------------------------------------------- exact Scalar arithmetic
\* A Scalar is a normalised fraction <<numerator, denominator>>, denominator > 0.
Abs(x) == IF x < 0 THEN -x ELSE x

RECURSIVE GCD(_, _)
GCD(a, b) == IF b = 0 THEN a ELSE GCD(b, a % b)

Q(n, d) ==
  LET s == IF d < 0 THEN -1 ELSE 1
      g == GCD(Abs(n), Abs(d))
  IN  <<(s * n) \div g, (s * d) \div g>>

Zero == <<0, 1>>
One == <<1, 1>>
QInt(v) == <<v, 1>>
QAdd(x, y) ==
  LET g == GCD(x[2], y[2])
  IN  Q(x[1] * (y[2] \div g) + y[1] * (x[2] \div g), (x[2] \div g) * y[2])
QNeg(x) == <<-x[1], x[2]>>
QSub(x, y) == QAdd(x, QNeg(y))
QMul(x, y) ==
  LET g1 == GCD(Abs(x[1]), y[2])
      g2 == GCD(Abs(y[1]), x[2])
  IN  IF x[1] = 0 \/ y[1] = 0 THEN Zero
      ELSE Q((x[1] \div g1) * (y[1] \div g2), (x[2] \div g2) * (y[2] \div g1))
QDiv(x, y) == QMul(x, Q(y[2], y[1]))
\* a/b < c/d for a, c >= 0 and b, d > 0, by the continued-fraction expansions
\* (no product is formed).
RECURSIVE FracLess(_, _, _, _)
FracLess(a, b, c, d) ==
  IF a \div b # c \div d THEN a \div b < c \div d
  ELSE IF c % d = 0 THEN FALSE
  ELSE IF a % b = 0 THEN TRUE
  ELSE FracLess(d, c % d, b, a % b)

QLess(x, y) ==
  IF x[1] < 0
  THEN IF y[1] < 0 THEN FracLess(-y[1], y[2], -x[1], x[2]) ELSE TRUE
  ELSE IF y[1] < 0 THEN FALSE ELSE FracLess(x[1], x[2], y[1], y[2])
QAbs(x) == <<Abs(x[1]), x[2]>>

RECURSIVE QSum(_)
QSum(s) == IF s = <<>> THEN Zero ELSE QAdd(Head(s), QSum(Tail(s)))

\* ------------------------------------------------------------------ values
NULL == <<>>                       \* a null pointer / an unallocated array
Uninit == <<>>                     \* a new Scalar[ndof] nothing was copied into yet
Undef == <<0, 0>>                  \* an array element never written
Values == {QInt(v) : v \in 0..MaxVal}
Vectors(nd) == [1..nd -> Values]
ZeroVector(nd) == [k \in 1..nd |-> Zero]

\* Space<Scalar>::get_num_dofs(dp->get_spaces()) of the problems explored.
NdofInputs == {1}

TolDefault == <<1, 10000>>
TolInputs == {<<1, 10000>>, <<1, 1000000>>, <<2, 1>>}
BetaInputs == {One, <<1, 2>>}

VARIABLES
  \* configuration (members of PicardSolver / NonlinearSolver)
  tol, max_iter, num_last_vectors_used, anderson_beta, anderson_is_on,
  constant_jacobian, jacobian_reusable,
  \* the discrete problem bound to the solver
  problem, ndof,
  \* the solver's solution vector (member), the position inside solve, how the
  \* last solve ended, whether solve was ever invoked on this instance and how
  \* many invocations passed init_solving (1, or 2 for two or more)
  sln_vector, pc, result, solved, runs,
  \* the argument and the locals of solve
  coeff_vec, last_iter_vector, previous_vectors, mem, anderson_coeffs, it, vec_in_memory,
  heap, err,
  \* the collaborators as the current solve drives them: the factorization
  \* scheme set on matrix_solver, what the last assemble call assembled and at
  \* which vector, matrix_solver->get_sln_vector(), and call counts
  scheme, assembled, asm_arg, lin_out, calls,
  \* every vector stored into the Anderson memory by this solve, in store order
  stored

config == <<tol, max_iter, num_last_vectors_used, anderson_beta, anderson_is_on,
            constant_jacobian>>
locals == <<coeff_vec, last_iter_vector, previous_vectors, mem, anderson_coeffs, it,
            vec_in_memory, heap, err, stored>>
collab == <<scheme, assembled, asm_arg, lin_out, calls>>
vars == <<config, jacobian_reusable, problem, ndof, sln_vector, pc, result, solved, runs,
          locals, collab>>

NoCalls == [assemble |-> 0, solve |-> 0, step_begin |-> 0, step_end |-> 0,
            finish |-> 0, ludcmp |-> 0]
NoErr == [computed |-> FALSE, norm |-> Zero, abs |-> Zero, squared |-> FALSE,
          kind |-> "none", rel |-> Zero]

\* PicardSolver::PicardSolver -> init_picard, on top of NonlinearSolver's
\* construction (no solution vector yet, Jacobian not yet reusable).
Init ==
  /\ tol = TolDefault
  /\ max_iter = DefaultMaxIter
  /\ num_last_vectors_used = DefaultDepth
  /\ anderson_beta = One
  /\ anderson_is_on = FALSE
  /\ constant_jacobian \in BOOLEAN
  /\ jacobian_reusable = FALSE
  /\ problem \in {"free", "affine"}
  /\ ndof \in NdofInputs
  /\ (problem = "affine" => ndof = 1)
  /\ sln_vector = NULL
  /\ pc = "idle"
  /\ result = "none"
  /\ solved = FALSE
  /\ runs = 0
  /\ coeff_vec = NULL
  /\ last_iter_vector = NULL
  /\ previous_vectors = NULL
  /\ mem = <<>>
  /\ anderson_coeffs = NULL
  /\ it = 0
  /\ vec_in_memory = 0
  /\ heap = <<>>
  /\ err = NoErr
  /\ scheme = "none"
  /\ assembled = "none"
  /\ asm_arg = NULL
  /\ lin_out = NULL
  /\ calls = NoCalls
  /\ stored = <<>>

\* ------------------------------------------------------------------ setters
\* The setters only assign; the model explores configurations made before the
\* first solve of an instance (later solves run under the same configuration).
Configurable == pc = "idle" /\ ~solved

set_picard_tol ==
  /\ Configurable
  /\ \E t \in TolInputs : tol' = t
  /\ UNCHANGED <<max_iter, num_last_vectors_used, anderson_beta, anderson_is_on,
                 constant_jacobian, jacobian_reusable, problem, ndof, sln_vector,
                 pc, result, solved, runs, locals, collab>>

set_picard_max_iter ==
  /\ Configurable
  /\ \E m \in 0..MaxIters : max_iter' = m
  /\ UNCHANGED <<tol, num_last_vectors_used, anderson_beta, anderson_is_on,
                 constant_jacobian, jacobian_reusable, problem, ndof, sln_vector,
                 pc, result, solved, runs, locals, collab>>

set_num_last_vector_used ==
  /\ Configurable
  /\ \E num \in 0..MaxDepth : num_last_vectors_used' = num
  /\ UNCHANGED <<tol, max_iter, anderson_beta, anderson_is_on,
                 constant_jacobian, jacobian_reusable, problem, ndof, sln_vector,
                 pc, result, solved, runs, locals, collab>>

set_anderson_beta ==
  /\ Configurable
  /\ \E b \in BetaInputs : anderson_beta' = b
  /\ UNCHANGED <<tol, max_iter, num_last_vectors_used, anderson_is_on,
                 constant_jacobian, jacobian_reusable, problem, ndof, sln_vector,
                 pc, result, solved, runs, locals, collab>>

use_Anderson_acceleration ==
  /\ Configurable
  /\ \E to_set \in BOOLEAN : anderson_is_on' = to_set
  /\ UNCHANGED <<tol, max_iter, num_last_vectors_used, anderson_beta,
                 constant_jacobian, jacobian_reusable, problem, ndof, sln_vector,
                 pc, result, solved, runs, locals, collab>>

\* ------------------------------------------------------------- allocations
\* heap maps every block allocated by the current solve to the number of times
\* it was deleted.  A block is <<kind, index>>.
Alloc(h, blocks) == h @@ [b \in blocks |-> 0]
Delete(h, b) == [h EXCEPT ![b] = @ + 1]

RECURSIVE DeleteAll(_, _)
DeleteAll(h, bs) ==
  IF Len(bs) = 0 THEN h ELSE DeleteAll(Delete(h, Head(bs)), Tail(bs))

LastIterBlock == <<"last_iter_vector", 0>>
HistoryArrayBlock == <<"previous_vectors", 0>>
CoeffsBlock == <<"anderson_coeffs", 0>>
VecBlock(p) == <<"vec", p>>
SolveBlocks(on, M) ==
  {LastIterBlock} \cup
  (IF on THEN {HistoryArrayBlock, CoeffsBlock} \cup {VecBlock(p) : p \in 1..M}
   ELSE {})

\* The deletes of the two regular exits of solve (lines 345-353 and 364-372).
ReleaseSolveMemory(h, pv, on, M) ==
  LET h1 == Delete(h, LastIterBlock)
  IN  IF on
      THEN Delete(Delete(DeleteAll(h1, [i \in 1..M |-> VecBlock(pv[i])]),
                         HistoryArrayBlock), CoeffsBlock)
      ELSE h1

\* ---------------------------------------------------- Anderson coefficients
\* Dense solve of the n x n system (hermes_common's ludcmp / lubksb): exact
\* solution of mat * x = rhs; a singular matrix has no decomposition.
Minor(m, i, j) ==
  [r \in 1..(Len(m) - 1) |->
     [c \in 1..(Len(m) - 1) |->
        m[IF r < i THEN r ELSE r + 1][IF c < j THEN c ELSE c + 1]]]

RECURSIVE Det(_)
Det(m) ==
  IF Len(m) = 1 THEN m[1][1]
  ELSE QSum([j \in 1..Len(m) |->
               QMul(IF j % 2 = 1 THEN m[1][j] ELSE QNeg(m[1][j]),
                    Det(Minor(m, 1, j)))])

\* The value of the one element of S; with a bound element, S == {e(x) : x \in {v}},
\* v is computed once however often e uses it.
Once(S) == CHOOSE v \in S : TRUE

ludcmp(mat, n) == Det(mat) # Zero

lubksb(mat, n, rhs) ==
  Once({[i \in 1..n |->
           QDiv(Det([r \in 1..n |-> [c \in 1..n |->
                       IF c = i THEN rhs[r] ELSE mat[r][c]]]),
                d)] \o <<>> : d \in {Det(mat)}})

\* residual_i_k = previous_vectors[i + 1][k] - previous_vectors[i][k], i from 0.
Residual(pv, i, k) == QSub(pv[i + 2][k], pv[i + 1][k])

AndersonRhs(pv, n, nd) ==
  [i \in 1..n |->
     QSum([k \in 1..nd |->
             QMul(Residual(pv, n, k),
                  QSub(Residual(pv, n, k), Residual(pv, i - 1, k)))])] \o <<>>

AndersonMat(pv, n, nd) ==
  [i \in 1..n |-> [j \in 1..n |->
     QSum([k \in 1..nd |->
             QMul(QSub(Residual(pv, n, k), Residual(pv, i - 1, k)),
                  QSub(Residual(pv, n, k), Residual(pv, j - 1, k)))])] \o <<>>] \o <<>>

\* LastCoeff with the sign of the sum wrong.
LastCoeffPlus(sum) == QAdd(One, sum)

\* anderson_coeffs[n] = 1.0 - sum
LastCoeff(sum) == QSub(One, sum)

\* The scratch blocks of the k-th call that reaches the matrix system, and the
\* ones that call deletes before it returns.
ScratchBlocks(k) == {<<"mat", k>>, <<"rhs", k>>, <<"perm", k>>}
ScratchDeleted(k) == <<(<<"mat", k>>), (<<"rhs", k>>)>>

\* calculate_anderson_coeffs on the M history vectors pv (oldest first):
\* the exit taken, the coefficient array afterwards and whether the matrix
\* system was set up.
calculate_anderson_coeffs(pv, coeffs, M, nd) ==
  IF M <= 1
  THEN [status |-> "exception", coeffs |-> coeffs, matrix |-> FALSE]
  ELSE IF M = 2
  THEN [status |-> "ok", coeffs |-> [coeffs EXCEPT ![1] = One], matrix |-> FALSE]
  ELSE
    Once({IF ~ludcmp(mat, M - 2)
          THEN [status |-> "singular", coeffs |-> coeffs, matrix |-> TRUE]
          ELSE Once({[status |-> "ok",
                      coeffs |-> [i \in 1..(M - 1) |->
                                    IF i <= M - 2 THEN x[i]
                                    ELSE LastCoeff(QSum(x))] \o <<>>,
                      matrix |-> TRUE] :
                     x \in {lubksb(mat, M - 2, AndersonRhs(pv, M - 2, nd))}}) :
          mat \in {AndersonMat(pv, M - 2, nd)}})

\* AndersonMix with the history indexed from the oldest vector: c_j weighs
\* v_(j-1).
AndersonMixOldest(pv, coeffs, M, nd, beta) ==
  [i \in 1..nd |->
     QSum([j \in 1..(M - 1) |->
             QSub(QMul(coeffs[j], pv[j][i]),
                  QMul(QMul(QSub(One, beta), coeffs[j]),
                       QSub(pv[j + 1][i], pv[j][i])))])]

\* The new sln_vector of lines 311-318.
AndersonMix(pv, coeffs, M, nd, beta) ==
  [i \in 1..nd |->
     QSum([j \in 1..(M - 1) |->
             QSub(QMul(coeffs[j], pv[j + 1][i]),
                  QMul(QMul(QSub(One, beta), coeffs[j]),
                       QSub(pv[j + 1][i], pv[j][i])))])]

\* --------------------------------------------------------- relative error
\* The squares of last_iter_vec_norm and abs_error (lines 324-332).
NormSq(v) == QSum([i \in 1..Len(v) |-> QAbs(QMul(v[i], v[i]))])
DiffSq(a, b) ==
  QSum([i \in 1..Len(a) |-> QAbs(QMul(QSub(a[i], b[i]), QSub(a[i], b[i])))])

\* sqrt(sum of |x*x|) is |x| itself for a single component; for more components
\* the norm is kept by its square.
Squared(nd) == nd # 1
Norm(v) == IF Squared(Len(v)) THEN NormSq(v) ELSE QAbs(v[1])
Dist(a, b) == IF Squared(Len(a)) THEN DiffSq(a, b) ELSE QAbs(QSub(a[1], b[1]))

\* rel_error = abs_error / last_iter_vec_norm in IEEE arithmetic: 0/0 is NaN,
\* x/0 is +Infinity for x > 0.  With squared set, abs, norm and rel hold the
\* squares of abs_error, last_iter_vec_norm and rel_error.
RelError(abs, norm, squared) ==
  IF norm = Zero
  THEN [computed |-> TRUE, norm |-> norm, abs |-> abs, squared |-> squared,
        kind |-> IF abs = Zero THEN "NaN" ELSE "Inf", rel |-> Zero]
  ELSE [computed |-> TRUE, norm |-> norm, abs |-> abs, squared |-> squared,
        kind |-> "fin", rel |-> QDiv(abs, norm)]

\* BelowTol with the absolute error compared against tol.
BelowTolAbsolute(e, t) ==
  /\ e.kind = "fin"
  /\ t[1] > 0
  /\ QLess(e.abs, IF e.squared THEN QMul(t, t) ELSE t)

\* rel_error < tol (line 343); every comparison with NaN or +Infinity is false.
BelowTol(e, t) ==
  /\ e.kind = "fin"
  /\ t[1] > 0
  /\ QLess(e.rel, IF e.squared THEN QMul(t, t) ELSE t)

\* MaxIterReached with the comparison strict.
MaxIterExceeded(i, m) == i > m

\* it >= max_iter (line 362)
MaxIterReached(i, m) == i >= m

\* ----------------------------------------------------------- the history
\* PushHistory with the shift of lines 295-296 left out: a full memory only
\* overwrites its newest slot.
PushHistoryNoShift(pv, m, vim, M, v) ==
  IF vim < M
  THEN [pv |-> pv, mem |-> [m EXCEPT ![pv[vim + 1]] = v], vim |-> vim + 1]
  ELSE [pv |-> pv, mem |-> [m EXCEPT ![pv[M]] = v], vim |-> vim]

\* Lines 281-302: store the new vector v in the Anderson memory.
PushHistory(pv, m, vim, M, v) ==
  IF vim < M
  THEN [pv |-> pv, mem |-> [m EXCEPT ![pv[vim + 1]] = v], vim |-> vim + 1]
  ELSE LET oldest_vec == pv[1]
           shifted == [i \in 1..M |-> IF i < M THEN pv[i + 1] ELSE oldest_vec]
       IN  [pv |-> shifted, mem |-> [m EXCEPT ![shifted[M]] = v], vim |-> vim]

\* The history as vectors, oldest first.
HistoryVectors(pv, m, M) == [i \in 1..M |-> m[pv[i]]]

\* ------------------------------------------------------------- validation
\* PicardSolver::isOkay, called by check() at the start of init_solving.
isOkay == IF num_last_vectors_used < 1 THEN "exception" ELSE "ok"

\* ------------------------------------------------------------ the problem
\* What matrix_solver->solve() can put into get_sln_vector() when it succeeds.
AffineMap(v) == <<QAdd(QMul(<<1, 2>>, v[1]), QInt(3))>>
LinearOutputs ==
  IF problem = "affine" THEN {AffineMap(last_iter_vector)} ELSE Vectors(ndof)

\* The solves explored: those whose passes max_iter bounds by MaxIters, and
\* those of the contracting scalar map without relaxation, which end on their
\* own well before the default max_iter.
Explored == max_iter <= MaxIters \/ (problem = "affine" /\ anderson_beta = One)

\* ------------------------------------------------------------------ solve
\* Lines 215-242: init_solving (check, the solver's solution vector) and the
\* per-solve allocations.  check() raises before anything is touched.
SolveBegin ==
  /\ pc = "idle"
  /\ Explored
  /\ solved' = TRUE
  /\ \E guess \in {NULL} \cup Vectors(ndof) :
       /\ coeff_vec' = guess
       /\ IF isOkay # "ok"
          THEN /\ result' = "ConfigurationError"
               /\ last_iter_vector' = NULL
               /\ previous_vectors' = NULL
               /\ mem' = <<>>
               /\ anderson_coeffs' = NULL
               /\ stored' = <<>>
               /\ it' = 0
               /\ vec_in_memory' = 0
               /\ heap' = <<>>
               /\ err' = NoErr
               /\ calls' = NoCalls
               /\ assembled' = "none"
               /\ asm_arg' = NULL
               /\ lin_out' = NULL
               /\ UNCHANGED <<config, jacobian_reusable, problem, ndof, sln_vector, pc,
                              runs, scheme>>
          ELSE LET M == num_last_vectors_used
                   start == IF guess = NULL THEN ZeroVector(ndof) ELSE guess
               IN  /\ sln_vector' = start
                   /\ last_iter_vector' = start
                   /\ heap' = Alloc(<<>>, SolveBlocks(anderson_is_on, M))
                   /\ previous_vectors' =
                        IF anderson_is_on THEN [i \in 1..M |-> i] ELSE NULL
                   /\ mem' = IF anderson_is_on
                             THEN [i \in 1..M |-> IF i = 1 THEN start ELSE Uninit]
                             ELSE <<>>
                   /\ anderson_coeffs' =
                        IF anderson_is_on THEN [i \in 1..(M - 1) |-> Undef] ELSE NULL
                   /\ stored' = IF anderson_is_on THEN <<start>> ELSE <<>>
                   /\ it' = 1
                   /\ vec_in_memory' = 1
                   /\ err' = NoErr
                   /\ calls' = NoCalls
                   /\ result' = "none"
                   /\ pc' = "assemble"
                   /\ runs' = IF runs = 0 THEN 1 ELSE 2
                   /\ assembled' = "none"
                   /\ asm_arg' = NULL
                   /\ lin_out' = NULL
                   /\ UNCHANGED <<config, jacobian_reusable, problem, ndof, scheme>>

\* Assembly with the two reuse branches exchanged.
AssemblySwapped(reusable, constant) ==
  IF reusable
  THEN IF ~constant
       THEN [assembled |-> "residual",
             scheme |-> "HERMES_REUSE_FACTORIZATION_COMPLETELY"]
       ELSE [assembled |-> "jacobian+residual",
             scheme |-> "HERMES_REUSE_MATRIX_REORDERING_AND_SCALING"]
  ELSE [assembled |-> "jacobian+residual",
        scheme |-> "HERMES_FACTORIZE_FROM_SCRATCH"]

\* Lines 248-267: what is assembled and the factorization scheme signalled.
Assembly(reusable, constant) ==
  IF reusable
  THEN IF constant
       THEN [assembled |-> "residual",
             scheme |-> "HERMES_REUSE_FACTORIZATION_COMPLETELY"]
       ELSE [assembled |-> "jacobian+residual",
             scheme |-> "HERMES_REUSE_MATRIX_REORDERING_AND_SCALING"]
  ELSE [assembled |-> "jacobian+residual",
        scheme |-> "HERMES_FACTORIZE_FROM_SCRATCH"]

\* Lines 246-272: the first half of one pass of the loop.
StepAssemble ==
  /\ pc = "assemble"
  /\ LET a == Assembly(jacobian_reusable, constant_jacobian)
     IN  /\ assembled' = a.assembled
         /\ scheme' = a.scheme
  /\ asm_arg' = last_iter_vector
  /\ jacobian_reusable' = TRUE
  /\ calls' = [calls EXCEPT !.step_begin = @ + 1, !.assemble = @ + 1,
                            !.step_end = @ + 1]
  /\ pc' = "linsolve"
  /\ UNCHANGED <<config, problem, ndof, sln_vector, result, solved, runs, locals,
                 lin_out>>

\* LinearSolveFails with the failed solve tried again.
LinearSolveRetried ==
  /\ pc = "linsolve"
  /\ calls' = [calls EXCEPT !.solve = @ + 1]
  /\ result' = "LinearSolveFailed"
  /\ pc' = "linsolve"
  /\ UNCHANGED <<config, jacobian_reusable, problem, ndof, sln_vector, solved, runs,
                 locals, scheme, assembled, asm_arg, lin_out>>

\* Lines 275-276: matrix_solver->solve() fails and the exception leaves solve.
LinearSolveFails ==
  /\ pc = "linsolve"
  /\ calls' = [calls EXCEPT !.solve = @ + 1]
  /\ result' = "LinearSolveFailed"
  /\ pc' = "idle"
  /\ UNCHANGED <<config, jacobian_reusable, problem, ndof, sln_vector, solved, runs,
                 locals, scheme, assembled, asm_arg, lin_out>>

\* The blocks deleted on the way out of solve, by the exit taken.
ExitRelease(exit, h, pv, on, M) ==
  IF exit \in {"Converged", "MaxIterationsExceeded"}
  THEN ReleaseSolveMemory(h, pv, on, M)
  ELSE h

\* ExitSolution with the solution vector deleted on the max_iter exit.
ExitSolutionReleased(exit, sln) ==
  IF exit = "MaxIterationsExceeded" THEN NULL ELSE sln

\* sln_vector as the exit leaves it: no exit of solve touches it.
ExitSolution(exit, sln) == sln

\* Pushed with the store placed after the mixing: a full memory gets the
\* mixed vector in its newest slot.
PushedMixed(out) ==
  IF anderson_is_on
  THEN LET p == PushHistory(previous_vectors, mem, vec_in_memory,
                            num_last_vectors_used, out)
           M == num_last_vectors_used
           co == calculate_anderson_coeffs(HistoryVectors(p.pv, p.mem, M),
                                           anderson_coeffs, M, ndof)
       IN  IF p.vim >= M /\ co.status = "ok"
           THEN [p EXCEPT !.mem[p.pv[M]] =
                   AndersonMix(HistoryVectors(p.pv, p.mem, M), co.coeffs, M, ndof,
                               anderson_beta)]
           ELSE p
  ELSE [pv |-> previous_vectors, mem |-> mem, vim |-> vec_in_memory]

\* Lines 281-302: the Anderson memory after the pass stored out.
Pushed(out) ==
  IF anderson_is_on
  THEN PushHistory(previous_vectors, mem, vec_in_memory, num_last_vectors_used, out)
  ELSE [pv |-> previous_vectors, mem |-> mem, vim |-> vec_in_memory]

\* Line 305: there are enough vectors in the memory.
MemoryFull(on, vim, M) == on /\ vim >= M

\* Lines 305-308: the coefficients, when the memory is full.
Coeffs(pushed) ==
  IF MemoryFull(anderson_is_on, pushed.vim, num_last_vectors_used)
  THEN calculate_anderson_coeffs(
         HistoryVectors(pushed.pv, pushed.mem, num_last_vectors_used),
         anderson_coeffs, num_last_vectors_used, ndof)
  ELSE [status |-> "ok", coeffs |-> anderson_coeffs, matrix |-> FALSE]

\* Candidate as an additive correction: the linear solver's output is added
\* to the previous iterate.
CandidateAdditive(out, pushed, co) ==
  IF MemoryFull(anderson_is_on, pushed.vim, num_last_vectors_used) /\ co.status = "ok"
  THEN AndersonMix(HistoryVectors(pushed.pv, pushed.mem, num_last_vectors_used),
                   co.coeffs, num_last_vectors_used, ndof, anderson_beta)
  ELSE [i \in 1..ndof |-> QAdd(last_iter_vector[i], out[i])]

\* Candidate with the mixing left out.
CandidateRaw(out, pushed, co) == out

\* Lines 278 and 310-318: sln_vector when the error is measured.
Candidate(out, pushed, co) ==
  IF MemoryFull(anderson_is_on, pushed.vim, num_last_vectors_used) /\ co.status = "ok"
  THEN AndersonMix(HistoryVectors(pushed.pv, pushed.mem, num_last_vectors_used),
                   co.coeffs, num_last_vectors_used, ndof, anderson_beta)
  ELSE out

\* Lines 324-334.
Error(co, sln) ==
  IF co.status = "ok"
  THEN RelError(Dist(sln, last_iter_vector), Norm(last_iter_vector), Squared(ndof))
  ELSE err

\* Exit with the two tests of lines 343 and 362 in the other order.
ExitMaxIterFirst(co, e) ==
  IF co.status = "exception" THEN "ConfigurationError"
  ELSE IF co.status = "singular" THEN "SingularMatrix"
  ELSE IF MaxIterReached(it, max_iter) THEN "MaxIterationsExceeded"
  ELSE IF BelowTol(e, tol) THEN "Converged"
  ELSE "none"

\* How the pass ends: an exception out of calculate_anderson_coeffs, one of the
\* two exits of lines 343-380, or "none" when the loop goes on.
Exit(co, e) ==
  IF co.status = "exception" THEN "ConfigurationError"
  ELSE IF co.status = "singular" THEN "SingularMatrix"
  ELSE IF BelowTol(e, tol) THEN "Converged"
  ELSE IF MaxIterReached(it, max_iter) THEN "MaxIterationsExceeded"
  ELSE "none"

\* The heap after the scratch arrays of calculate_anderson_coeffs and the
\* deletes of the exit.
HeapAfter(pushed, co, exit) ==
  ExitRelease(exit,
              IF co.matrix
              THEN IF co.status = "ok"
                   THEN DeleteAll(Alloc(heap, ScratchBlocks(calls.ludcmp + 1)),
                                  ScratchDeleted(calls.ludcmp + 1))
                   ELSE Alloc(heap, ScratchBlocks(calls.ludcmp + 1))
              ELSE heap,
              pushed.pv, anderson_is_on, num_last_vectors_used)

\* Lines 275-388 for a linear solver that succeeded: the second half of one
\* pass of the loop.
StepSolve ==
  /\ pc = "linsolve"
  /\ \E out \in LinearOutputs :
     \E pushed \in {Pushed(out)} :
     \E co \in {Coeffs(pushed)} :
     \E sln \in {Candidate(out, pushed, co)} :
     \E e \in {Error(co, sln)} :
     \E exit \in {Exit(co, e)} :
       /\ lin_out' = out
       /\ sln_vector' = ExitSolution(exit, sln)
       /\ previous_vectors' = pushed.pv
       /\ mem' = pushed.mem
       /\ vec_in_memory' = pushed.vim
       /\ stored' = IF anderson_is_on THEN Append(stored, out) ELSE stored
       /\ anderson_coeffs' = co.coeffs
       /\ err' = e
       /\ heap' = HeapAfter(pushed, co, exit)
       /\ result' = exit
       /\ calls' = [calls EXCEPT
                      !.solve = @ + 1,
                      !.ludcmp = IF co.matrix THEN @ + 1 ELSE @,
                      !.finish = IF exit \in {"Converged", "MaxIterationsExceeded"}
                                 THEN @ + 1 ELSE @,
                      !.step_end = IF exit = "none" THEN @ + 1 ELSE @]
       /\ IF exit = "none"
          THEN /\ it' = it + 1
               /\ last_iter_vector' = sln
               /\ pc' = "assemble"
          ELSE /\ pc' = "idle"
               /\ UNCHANGED <<it, last_iter_vector>>
  /\ UNCHANGED <<coeff_vec, config, jacobian_reusable, problem, ndof, solved, runs, scheme, assembled,
                 asm_arg>>

Next ==
  \/ set_picard_tol
  \/ set_picard_max_iter
  \/ set_num_last_vector_used
  \/ set_anderson_beta
  \/ use_Anderson_acceleration
  \/ SolveBegin
  \/ StepAssemble
  \/ LinearSolveFails
  \/ StepSolve

Spec == Init /\ [][Next]_vars

\* ------------------------------------------- the Anderson mixer on its own
\* calculate_anderson_coeffs and the mixing loop applied to every full memory
\* of M vectors with components in {-1, 0, 1}.
MixerValues == {QInt(v) : v \in {-1, 0, 1}}
MixerNdofs == {1, 2}

InitMixer ==
  /\ tol = TolDefault
  /\ max_iter = DefaultMaxIter
  /\ num_last_vectors_used \in 2..(MaxDepth + 1)
  /\ anderson_beta \in BetaInputs
  /\ anderson_is_on = TRUE
  /\ constant_jacobian = FALSE
  /\ jacobian_reusable = FALSE
  /\ problem = "free"
  /\ ndof \in MixerNdofs
  /\ num_last_vectors_used * ndof <= MaxCells
  /\ sln_vector = NULL
  /\ pc = "coeffs"
  /\ result = "none"
  /\ solved = FALSE
  /\ runs = 0
  /\ coeff_vec = NULL
  /\ last_iter_vector = NULL
  /\ previous_vectors = [i \in 1..num_last_vectors_used |-> i]
  /\ mem \in [1..num_last_vectors_used -> [1..ndof -> MixerValues]]
  /\ anderson_coeffs = [i \in 1..(num_last_vectors_used - 1) |-> Undef]
  /\ it = 0
  /\ vec_in_memory = num_last_vectors_used
  /\ heap = <<>>
  /\ err = NoErr
  /\ scheme = "none"
  /\ assembled = "none"
  /\ asm_arg = NULL
  /\ lin_out = NULL
  /\ calls = NoCalls
  /\ stored = <<>>

\* Line 308 alone.
CalculateCoeffs ==
  /\ pc = "coeffs"
  /\ \E co \in {calculate_anderson_coeffs(
                  HistoryVectors(previous_vectors, mem, num_last_vectors_used),
                  anderson_coeffs, num_last_vectors_used, ndof)} :
       /\ anderson_coeffs' = co.coeffs
       /\ result' = IF co.status = "ok" THEN "none"
                    ELSE IF co.status = "singular" THEN "SingularMatrix"
                    ELSE "ConfigurationError"
       /\ pc' = IF co.status = "ok" THEN "mix" ELSE "idle"
       /\ calls' = [calls EXCEPT !.ludcmp = IF co.matrix THEN @ + 1 ELSE @]
       /\ heap' = IF co.matrix
                  THEN IF co.status = "ok"
                       THEN DeleteAll(Alloc(heap, ScratchBlocks(1)), ScratchDeleted(1))
                       ELSE Alloc(heap, ScratchBlocks(1))
                  ELSE heap
  /\ UNCHANGED <<config, jacobian_reusable, problem, ndof, sln_vector, solved, runs,
                 coeff_vec, last_iter_vector, previous_vectors, mem, it,
                 vec_in_memory, err, stored, scheme, assembled, asm_arg, lin_out>>

\* Lines 311-318 alone.
MixVectors ==
  /\ pc = "mix"
  /\ sln_vector' =
       AndersonMix(HistoryVectors(previous_vectors, mem, num_last_vectors_used),
                   anderson_coeffs, num_last_vectors_used, ndof, anderson_beta)
  /\ pc' = "mixed"
  /\ UNCHANGED <<config, jacobian_reusable, problem, ndof, result, solved, runs,
                 locals, collab>>

NextMixer == CalculateCoeffs \/ MixVectors

SpecMixer == InitMixer /\ [][NextMixer]_vars

\* ================================================================== claims
ValidDepth ==
  num_last_vectors_used >= 1 /\ (anderson_is_on => num_last_vectors_used >= 2)

\* The last M vectors stored into the Anderson memory, oldest first.
LastStored(M) == [i \in 1..M |-> stored[Len(stored) - M + i]]

\* C1: when the linear solver fails, every block the solve allocated has been
\* deleted by the time the exception reaches the caller.
C1_ReleasedOnLinearSolveFailure ==
  result = "LinearSolveFailed" => \A b \in DOMAIN heap : heap[b] >= 1

\* C2: a history depth below 1, or below 2 with Anderson on, is rejected before
\* any assembly or linear solve, and never from inside the loop.
C2_DepthRejectedBeforeIterating ==
  /\ (solved /\ ~ValidDepth) => (calls.assemble = 0 /\ calls.solve = 0)
  /\ result = "ConfigurationError" => (calls.assemble = 0 /\ calls.solve = 0)

\* C3: with a zero previous iterate the relative error is not the quotient by
\* the zero norm (neither NaN nor Infinity), and the pass converges exactly when
\* the absolute error is itself (numerically) zero.
C3_ZeroNormNotDivided ==
  (err.computed /\ err.norm = Zero) =>
    /\ err.kind \notin {"NaN", "Inf"}
    /\ (result = "Converged") <=> (err.abs = Zero)

\* C4: when the first linear solve returns the initial guess, solve ends
\* Converged after that one pass with relative error 0.
C4_FixedPointGuessConvergesAtOnce ==
  (/\ calls.assemble = 1
   /\ calls.solve = 1
   /\ result # "LinearSolveFailed"
   /\ lin_out = asm_arg) =>
    /\ result = "Converged"
    /\ pc = "idle"
    /\ err.kind = "fin"
    /\ err.rel = Zero

\* What an iteration that reuses the Jacobian structure signals and assembles.
ReuseSignalled ==
  IF constant_jacobian
  THEN /\ scheme = "HERMES_REUSE_FACTORIZATION_COMPLETELY"
       /\ assembled = "residual"
  ELSE /\ scheme = "HERMES_REUSE_MATRIX_REORDERING_AND_SCALING"
       /\ assembled = "jacobian+residual"

ScratchSignalled ==
  /\ scheme = "HERMES_FACTORIZE_FROM_SCRATCH"
  /\ assembled = "jacobian+residual"

\* C5 (as claimed): in every solve, also a second or later one on the same
\* instance, iteration 1 assembles both and signals FromScratch, and every
\* later iteration signals the reuse that matches constant_jacobian.
C5_FromScratchInEverySolve ==
  pc = "linsolve" => IF it = 1 THEN ScratchSignalled ELSE ReuseSignalled

\* C5 (amended): iteration 1 of the first solve that enters the loop assembles
\* both and signals FromScratch; every other iteration, iteration 1 of a later
\* solve included, signals the reuse that matches constant_jacobian.
C5_FromScratchOncePerInstance ==
  pc = "linsolve" =>
    IF it = 1 /\ runs = 1 THEN ScratchSignalled ELSE ReuseSignalled

C5_Witness ==
  pc = "linsolve" /\ it = 1 /\ runs = 2 /\ ReuseSignalled /\ constant_jacobian

\* C6: with Anderson on and M >= 2 the memory never holds more than M vectors;
\* while it fills, its slots are the stored vectors in store order, and once
\* more than M were stored they are the last M stored, oldest first.
C6_HistoryHoldsLastM ==
  (anderson_is_on /\ num_last_vectors_used >= 2 /\ Len(stored) > 0) =>
    LET M == num_last_vectors_used
    IN  /\ vec_in_memory <= M
        /\ vec_in_memory = IF Len(stored) < M THEN Len(stored) ELSE M
        /\ \A i \in 1..vec_in_memory :
             mem[previous_vectors[i]] =
               stored[IF Len(stored) > M THEN Len(stored) - M + i ELSE i]

C6_Witness ==
  /\ anderson_is_on
  /\ num_last_vectors_used = 3
  /\ Len(stored) > num_last_vectors_used
  /\ stored[1] # stored[Len(stored)]

\* C7: after the max_iter exit sln_vector is still allocated and holds the
\* candidate of the last pass: the mixed vector when the memory was full,
\* the linear solver's output otherwise.
C7_LastIterateKept ==
  result = "MaxIterationsExceeded" =>
    /\ sln_vector # NULL
    /\ sln_vector =
         IF anderson_is_on /\ Len(stored) >= num_last_vectors_used
         THEN AndersonMix(LastStored(num_last_vectors_used), anderson_coeffs,
                          num_last_vectors_used, ndof, anderson_beta)
         ELSE lin_out

C7_Witness ==
  /\ result = "MaxIterationsExceeded"
  /\ anderson_is_on
  /\ Len(stored) >= num_last_vectors_used
  /\ sln_vector # lin_out

\* C8: for max_iter >= 1, a solve that entered the loop and ended without a
\* pass below tol and without a failed linear solve ended with
\* MaxIterationsExceeded after exactly max_iter assemblies and linear solves;
\* with max_iter = 1 on x -> 0.5*x + 3 from 0 the last iterate is 3.
C8_ExactlyMaxIterPasses ==
  (/\ max_iter >= 1
   /\ pc = "idle"
   /\ calls.assemble >= 1
   /\ result \notin {"Converged", "LinearSolveFailed", "SingularMatrix"}) =>
    /\ result = "MaxIterationsExceeded"
    /\ calls.assemble = max_iter
    /\ calls.solve = max_iter
    /\ (problem = "affine" /\ max_iter = 1 /\ ~anderson_is_on
          /\ asm_arg = ZeroVector(1)
          => sln_vector = <<QInt(3)>>)

\* C9: on the Converged and the max_iter exits every block the solve
\* allocated, the scratch arrays of calculate_anderson_coeffs included, was
\* deleted exactly once.
C9_EveryBlockReleasedOnce ==
  result \in {"Converged", "MaxIterationsExceeded"} =>
    \A b \in DOMAIN heap : heap[b] = 1

\* C10: whenever the coefficient system is solvable, the M-1 coefficients
\* calculate_anderson_coeffs writes sum to exactly 1; for M = 2 the one
\* coefficient is 1 and no matrix system was set up (no scratch array, no
\* dense solve).
C10_CoefficientsSumToOne ==
  pc \in {"mix", "mixed"} =>
    /\ Len(anderson_coeffs) = num_last_vectors_used - 1
    /\ \A i \in 1..Len(anderson_coeffs) : anderson_coeffs[i] # Undef
    /\ QSum(anderson_coeffs) = One
    /\ (num_last_vectors_used = 2 =>
          /\ anderson_coeffs = <<One>>
          /\ calls.ludcmp = 0
          /\ DOMAIN heap = {})

C10_Witness ==
  /\ pc = "mix"
  /\ num_last_vectors_used = 4
  /\ anderson_coeffs[1][2] > 1
  /\ anderson_coeffs[3] # One

\* The scalar map x -> 0.5*x + 3 solved from x_0 = 0 (a null or a zero guess)
\* with tol = 1e-6 under the default max_iter and history depth.
AffineFromZero ==
  /\ problem = "affine"
  /\ tol = <<1, 1000000>>
  /\ max_iter = DefaultMaxIter
  /\ num_last_vectors_used = DefaultDepth
  /\ anderson_beta = One
  /\ coeff_vec \in {NULL, ZeroVector(1)}
  /\ calls.assemble >= 1
  /\ result # "LinearSolveFailed"

\* C11: on the scalar map from 0 with tol = 1e-6 the solve with Anderson on
\* (M = 3, beta = 1) ends Converged after strictly fewer passes than the solve
\* with Anderson off, which ends Converged after 20.
C11_AndersonFewerIterations ==
  (AffineFromZero /\ pc = "idle") =>
    /\ result = "Converged"
    /\ IF anderson_is_on THEN calls.solve < 20 ELSE calls.solve = 20

\* C12 (as claimed): with Anderson off the iterate after k passes is
\* 6 - 6/2^k, the solve ends Converged within 20 passes and the iterate it
\* returns is within 1e-6 of 6.
C12_ConvergesWithinTolOfSix ==
  (AffineFromZero /\ ~anderson_is_on) =>
    /\ sln_vector = <<Q(6 * 2^calls.solve - 6, 2^calls.solve)>>
    /\ pc = "idle" =>
         /\ result = "Converged"
         /\ calls.solve <= 20
         /\ ~QLess(<<1, 1000000>>, QAbs(QSub(sln_vector[1], QInt(6))))

\* C12 (amended): with Anderson off the iterate after k passes is 6 - 6/2^k,
\* the solve ends Converged at pass 20, and the iterate it returns is
\* 6 - 6/2^20: further than 1e-6 from 6, within 1e-5.
C12_ConvergesAtPassTwenty ==
  (AffineFromZero /\ ~anderson_is_on) =>
    /\ sln_vector = <<Q(6 * 2^calls.solve - 6, 2^calls.solve)>>
    /\ pc = "idle" =>
         /\ result = "Converged"
         /\ calls.solve = 20
         /\ QAbs(QSub(sln_vector[1], QInt(6))) = Q(6, 2^20)
         /\ QLess(<<1, 1000000>>, Q(6, 2^20))
         /\ QLess(Q(6, 2^20), <<1, 100000>>)

C12_Witness ==
  /\ AffineFromZero
  /\ ~anderson_is_on
  /\ result = "Converged"
  /\ calls.solve = 20
  /\ BelowTol(err, tol)

\* C13: with beta = 1 every component k of the mixed vector is the sum over
\* j = 1..M-1 of c_j * v_j[k]; the oldest vector v_0 has no term.
C13_MixIsLinearCombination ==
  (pc = "mixed" /\ anderson_beta = One) =>
    \A k \in 1..ndof :
      sln_vector[k] =
        QSum([j \in 1..(num_last_vectors_used - 1) |->
                QMul(anderson_coeffs[j], mem[previous_vectors[j + 1]][k])])

C13_Witness ==
  /\ pc = "mixed"
  /\ anderson_beta = One
  /\ num_last_vectors_used >= 3
  /\ mem[previous_vectors[1]] # ZeroVector(ndof)
  /\ anderson_coeffs[1] # Zero
  /\ sln_vector # mem[previous_vectors[num_last_vectors_used]]

\* C14: a pass whose relative error is below tol ends the solve with
\* Converged, also when it is pass number max_iter; MaxIterationsExceeded is
\* only reported for a pass whose relative error is not below tol.
C14_ConvergedTakesPrecedence ==
  /\ (err.computed /\ BelowTol(err, tol)) => (result = "Converged" /\ pc = "idle")
  /\ result = "Converged" => (err.computed /\ BelowTol(err, tol))
  /\ result = "MaxIterationsExceeded" => (err.computed /\ ~BelowTol(err, tol))

C14_Witness ==
  /\ result = "Converged"
  /\ max_iter >= 2
  /\ it = max_iter
  /\ calls.solve = max_iter

\* The candidate the last completed pass left in sln_vector, from what was
\* stored: the mix of the last M stored vectors when Anderson is on and M
\* vectors had been stored, the linear solver's output otherwise.
Mixed == anderson_is_on /\ Len(stored) >= num_last_vectors_used
ExpectedCandidate ==
  IF Mixed
  THEN AndersonMix(LastStored(num_last_vectors_used), anderson_coeffs,
                   num_last_vectors_used, ndof, anderson_beta)
  ELSE lin_out

\* C15: the vector every assembly is given is the solver's current solution
\* vector: the initial guess in pass 1, and in a later pass the candidate of
\* the pass before (after any mixing), which without mixing is the linear
\* solver's output itself, not that output added to the previous iterate.
C15_AssemblyAtCurrentSolution ==
  pc = "linsolve" =>
    /\ asm_arg = sln_vector
    /\ asm_arg = last_iter_vector
    /\ asm_arg = IF it = 1
                 THEN IF coeff_vec = NULL THEN ZeroVector(ndof) ELSE coeff_vec
                 ELSE ExpectedCandidate

C15_Witness ==
  /\ pc = "linsolve"
  /\ it >= 2
  /\ ~Mixed
  /\ asm_arg = lin_out
  /\ lin_out # ZeroVector(ndof)
  /\ coeff_vec # NULL
  /\ coeff_vec # ZeroVector(ndof)

C17_NoRetryAfterLinearFailure ==
  result = "LinearSolveFailed" =>
    /\ pc = "idle"
    /\ calls.assemble = it
    /\ calls.solve = it
    /\ sln_vector = asm_arg
    /\ sln_vector = last_iter_vector

C17_Witness ==
  /\ result = "LinearSolveFailed"
  /\ it >= 2
  /\ sln_vector = lin_out
  /\ sln_vector # ZeroVector(ndof)

\* The initial guess of the current solve and the outputs of its linear solves.
StartVector == IF coeff_vec = NULL THEN ZeroVector(ndof) ELSE coeff_vec
RawVectors == {StartVector} \cup {stored[j] : j \in 2..Len(stored)}

\* C18: with Anderson on every vector in the memory is the initial guess or
\* the unmodified output of a linear solve, never a mixed vector.
C18_HistoryHoldsRawVectors ==
  (anderson_is_on /\ previous_vectors # NULL) =>
    /\ stored[1] = StartVector
    /\ \A i \in 1..vec_in_memory : mem[previous_vectors[i]] \in RawVectors

\* A mixed vector, in no slot of the memory, is the previous iterate handed to
\* the assembler.
C18_Witness ==
  /\ anderson_is_on
  /\ pc = "linsolve"
  /\ Mixed
  /\ asm_arg = ExpectedCandidate
  /\ asm_arg \notin RawVectors
  /\ vec_in_memory = num_last_vectors_used

\* The largest number of passes of a solve: max(1, max_iter).
PassBound == IF max_iter > 1 THEN max_iter ELSE 1

\* No pass beyond max(1, max_iter), and a solve that passed validation and is
\* over made at least one assembly and one linear solve.
WithinPassBound ==
  /\ it <= PassBound
  /\ calls.assemble <= PassBound
  /\ calls.solve <= PassBound
  /\ (pc = "idle" /\ solved /\ isOkay = "ok") => (calls.assemble >= 1 /\ calls.solve >= 1)

\* The position inside a solve: it grows with every step of the solve.
Position == 2 * it + (IF pc = "linsolve" THEN 1 ELSE 0)

\* A step taken inside a solve ends the solve or moves its position on.
Advances == pc # "idle" => (pc' = "idle" \/ Position' > Position)

\* C19: a solve ends after at most max(1, max_iter) passes and at least one,
\* also for max_iter <= 0: every step the collaborators let it take moves its
\* position on, and the position never passes the pass bound.
C19_TerminatesWithinPassBound ==
  /\ []WithinPassBound
  /\ [][Advances]_vars

C19_Witness ==
  /\ max_iter = 0
  /\ pc = "idle"
  /\ result = "MaxIterationsExceeded"
  /\ calls.assemble = 1
  /\ calls.solve = 1

\* C20: at most one on_step_end per on_step_begin, exactly one before the next
\* on_step_begin and before on_finish, and on_finish exactly once on each of
\* the exits Converged, MaxIterationsExceeded and LinearSolveFailed.
C20_CallbacksPaired ==
  /\ calls.step_end <= calls.step_begin
  /\ calls.step_end >= calls.step_begin - 1
  /\ pc = "assemble" => calls.step_end = calls.step_begin
  /\ calls.finish >= 1 => calls.step_end = calls.step_begin
  /\ calls.finish <= 1
  /\ result \in {"Converged", "MaxIterationsExceeded", "LinearSolveFailed"} =>
       calls.finish = 1

====
